---- MODULE Spec2Model ----
(***************************************************************************)
(* Model of github.com/unixpickle/neuraltree (node.go).                    *)
(*                                                                         *)
(* A float64 that lives in the log domain (a score, a log-probability) is  *)
(* modelled by the exact number q = exp(x) it is the logarithm of.  q is a *)
(* non-negative dyadic rational, written as the set of the exponents of    *)
(* its binary expansion: {0} is 1, {-1,-2} is 3/4, {} is 0 (x = -Inf).     *)
(* Adding two log-domain numbers multiplies their q; exp and log move      *)
(* between the two readings of the same q.  Mantissa rounding is not       *)
(* modelled; the range of exp (underflow to 0, overflow to +Inf) is.       *)
(***************************************************************************)
EXTENDS Integers, Sequences, FiniteSets, TLC

VARIABLES heap, ret

vars == <<heap, ret>>

(***************************************************************************)
(* Bounds of the model.                                                    *)
(***************************************************************************)
MaxNodes == 4
MaxDepth == 2
ClassCount == 2
SatExp == 1100
MaxLen == 2

(***************************************************************************)
(* float64 range of exp: exp(x) is 0 below ln(2^-1075) and +Inf above      *)
(* ln(2^1024).                                                             *)
(***************************************************************************)
ExpUnderflow == -1075
ExpOverflow == 1024

(***************************************************************************)
(* Exact dyadic arithmetic on sets of binary exponents.                    *)
(***************************************************************************)
SetMax(S) == CHOOSE x \in S : \A y \in S : y <= x

DShift(S, n) == {k + n : k \in S}

RECURSIVE DAdd(_, _)
DAdd(S, T) ==
    IF T = {} THEN S
    ELSE DAdd((S \ T) \cup (T \ S), DShift(S \cap T, 1))

RECURSIVE DMul(_, _)
DMul(S, T) ==
    IF T = {} THEN {}
    ELSE LET k == SetMax(T) IN DAdd(DShift(S, k), DMul(S, T \ {k}))

DLess(S, T) ==
    /\ S # T
    /\ SetMax((S \ T) \cup (T \ S)) \in T

DLeq(S, T) == S = T \/ DLess(S, T)

DOne == {0}

(***************************************************************************)
(* Values.  [d, k, q, m]: k is "fin", "inf" (+Inf) or "nan"; q is the      *)
(* dyadic; m is the scalar that AddScaler has subtracted and not yet added *)
(* back.  With d = "log" the float64 is log(q) - m, with d = "lin" (the    *)
(* result of Exp, before Log) it is q * exp(-m).  A magnitude (the result  *)
(* of math.Abs) is [k, q, inv]: log(q) when ~inv, -log(q) when inv.        *)
(***************************************************************************)
MagZero == [k |-> "fin", q |-> DOne, inv |-> FALSE]
MagInf == [k |-> "inf", q |-> DOne, inv |-> FALSE]
MagNaN == [k |-> "nan", q |-> DOne, inv |-> FALSE]

Fin(S) == [d |-> "log", k |-> "fin", q |-> S, m |-> MagZero]
NegInf == Fin({})
PosInf == [d |-> "log", k |-> "inf", q |-> {}, m |-> MagZero]
NaN == [d |-> "log", k |-> "nan", q |-> {}, m |-> MagZero]

Pow2(e) == Fin({e})

\* math.Abs of a log-domain value
Abs(x) ==
    IF x.k = "nan" THEN MagNaN
    ELSE IF x.k = "inf" \/ x.q = {} THEN MagInf
    ELSE [k |-> "fin", q |-> x.q, inv |-> DLess(x.q, DOne)]

\* a <= b for two finite magnitudes
MagLeq(a, b) ==
    CASE ~a.inv /\ ~b.inv -> DLeq(a.q, b.q)
      [] a.inv /\ b.inv -> DLeq(b.q, a.q)
      [] ~a.inv /\ b.inv -> DLeq(DMul(a.q, b.q), DOne)
      [] a.inv /\ ~b.inv -> DLeq(DOne, DMul(a.q, b.q))

\* math.Max on magnitudes
MathMax(a, b) ==
    IF a.k = "nan" \/ b.k = "nan" THEN MagNaN
    ELSE IF a.k = "inf" \/ b.k = "inf" THEN MagInf
    ELSE IF MagLeq(a, b) THEN b ELSE a

\* linalg.Vector.MaxAbs: res starts at 0 and takes math.Max with every |x|
RECURSIVE MaxAbsFrom(_, _, _)
MaxAbsFrom(v, i, res) ==
    IF i > Len(v) THEN res
    ELSE MaxAbsFrom(v, i + 1, MathMax(res, Abs(v[i])))

MaxAbs(v) == MaxAbsFrom(v, 1, MagZero)

(***************************************************************************)
(* autofunc operations used by logExpSum, element by element.              *)
(***************************************************************************)
\* x - maxVal (autofunc.AddScaler with a negated scalar)
SubScalar(x, maxVal) ==
    IF x.k = "nan" \/ maxVal.k = "nan" THEN NaN
    ELSE IF maxVal.k = "inf" THEN (IF x.k = "inf" THEN NaN ELSE NegInf)
    ELSE IF x.k = "inf" THEN PosInf
    ELSE [d |-> "log", k |-> "fin", q |-> x.q, m |-> maxVal]

\* x + maxVal (autofunc.AddScaler), x carrying the shift -maxVal or none
AddScalar(x, maxVal) ==
    IF x.k = "nan" \/ maxVal.k = "nan" THEN NaN
    ELSE IF x.k = "inf" THEN PosInf
    ELSE IF maxVal.k = "inf" THEN (IF x.q = {} THEN NaN ELSE PosInf)
    ELSE Fin(x.q)

\* q * exp(-m) < 2^e
BelowPow2(x, e) ==
    IF x.m.inv THEN DLess(DMul(x.q, x.m.q), {e})
    ELSE DLess(x.q, DShift(x.m.q, e))

\* q * exp(-m) > 2^e
AbovePow2(x, e) ==
    IF x.m.inv THEN DLess({e}, DMul(x.q, x.m.q))
    ELSE DLess(DShift(x.m.q, e), x.q)

ExpUnderflows(x) == x.k = "fin" /\ (x.q = {} \/ BelowPow2(x, ExpUnderflow))

ExpOverflows(x) == x.k = "inf" \/ (x.k = "fin" /\ x.q # {} /\ AbovePow2(x, ExpOverflow))

\* autofunc.Exp on one entry: the result is q * exp(-m) in the linear domain
ExpOf(x) ==
    IF x.k = "nan" THEN [NaN EXCEPT !.d = "lin"]
    ELSE IF ExpOverflows(x) THEN [PosInf EXCEPT !.d = "lin"]
    ELSE IF ExpUnderflows(x) THEN [d |-> "lin", k |-> "fin", q |-> {}, m |-> x.m]
    ELSE [d |-> "lin", k |-> "fin", q |-> x.q, m |-> x.m]

\* autofunc.Add on one entry (both carry the same shift)
AddOf(a, b) ==
    IF a.k = "nan" \/ b.k = "nan" THEN [NaN EXCEPT !.d = "lin"]
    ELSE IF a.k = "inf" \/ b.k = "inf" THEN [PosInf EXCEPT !.d = "lin"]
    ELSE [d |-> "lin", k |-> "fin", q |-> DAdd(a.q, b.q), m |-> a.m]

\* autofunc.Log on one entry: log(0) is -Inf (q = {}), log(+Inf) is +Inf
LogOf(x) ==
    IF x.k = "nan" THEN NaN
    ELSE IF x.k = "inf" THEN PosInf
    ELSE [d |-> "log", k |-> "fin", q |-> x.q, m |-> x.m]

AddScaler(v, maxVal) == [i \in 1..Len(v) |-> SubScalar(v[i], maxVal)]

AddScalerBack(v, maxVal) == [i \in 1..Len(v) |-> AddScalar(v[i], maxVal)]

Exp(v) == [i \in 1..Len(v) |-> ExpOf(v[i])]

Log(v) == [i \in 1..Len(v) |-> LogOf(v[i])]

Add(a, b) == [i \in 1..Len(a) |-> AddOf(a[i], b[i])]

\* logExpSum computes log(e^v1 + e^v2)
logExpSum(v1, v2) ==
    LET maxVal == MathMax(MaxAbs(v1), MaxAbs(v2))
        exp1 == Exp(AddScaler(v1, maxVal))
        exp2 == Exp(AddScaler(v2, maxVal))
        expSum == Add(exp1, exp2)
    IN AddScalerBack(Log(expSum), maxVal)

\* logExpSumR: the same formula on the outputs of the r-operator results
logExpSumR(v1, v2) ==
    LET maxVal == MathMax(MaxAbs(v1), MaxAbs(v2))
        exp1 == Exp(AddScaler(v1, maxVal))
        exp2 == Exp(AddScaler(v2, maxVal))
        expSum == Add(exp1, exp2)
    IN AddScalerBack(Log(expSum), maxVal)

(***************************************************************************)
(* neuralnet.Network: a list of layers.  A dense layer has two parameter   *)
(* variables (weights, biases); seed stands for the values Randomize (or   *)
(* training) gave them.  The network's output is read off a table: the     *)
(* last dense layer fixes the width, the seed and the input the scores, a  *)
(* final LogSoftmaxLayer normalises them.  Seed 1 is a skewed distribution *)
(* that depends on the input, seed 2 a saturated one: one outcome has      *)
(* probability 1 to the last bit and the others 2^-SatExp.                 *)
(***************************************************************************)
Seeds == {1, 2}
Inputs == {1, 2}

DenseLayer(in, out, seed) ==
    [type |-> "DenseLayer", InputCount |-> in, OutputCount |-> out, seed |-> seed]
HyperbolicTangent == [type |-> "HyperbolicTangent", InputCount |-> 0, OutputCount |-> 0, seed |-> 0]
LogSoftmaxLayer == [type |-> "LogSoftmaxLayer", InputCount |-> 0, OutputCount |-> 0, seed |-> 0]

DenseIdx(net) == {j \in 1..Len(net) : net[j].type = "DenseLayer"}
LastDense(net) == net[SetMax(DenseIdx(net))]
OutputWidth(net) == LastDense(net).OutputCount
Normalised(net) == net[Len(net)].type = "LogSoftmaxLayer"

\* n probabilities that sum to 2^e: 2^(e-1), 2^(e-2), ..., and the last one twice
GeoTail(n, e) ==
    [i \in 1..n |-> IF n = 1 THEN {e} ELSE IF i < n THEN {e - i} ELSE {e - (n - 1)}]

Reverse(v) == [i \in 1..Len(v) |-> v[Len(v) + 1 - i]]

\* the distribution over w outcomes that a network with this seed gives on input
Probs(w, seed, input) ==
    IF w = 1 THEN <<DOne>>
    ELSE IF seed = 1
         THEN LET p == <<{-1, -2}>> \o GeoTail(w - 1, -2)
              IN IF input % 2 = 0 THEN Reverse(p) ELSE p
         ELSE <<DOne>> \o [i \in 1..(w - 1) |-> {-SatExp}]

\* Network.Apply: the log-domain output vector
NetApply(net, input) ==
    LET w == OutputWidth(net)
        p == Probs(w, LastDense(net).seed, input)
    IN [i \in 1..w |-> IF Normalised(net) THEN Fin(p[i]) ELSE Fin(DShift(p[i], 1))]

\* Network.ApplyR: the output of the r-operator result
NetApplyR(net, input) == NetApply(net, input)

\* Network.Parameters of the network held by the node at address owner
NetParameters(net, owner) ==
    LET RECURSIVE From(_)
        From(j) ==
            IF j > Len(net) THEN <<>>
            ELSE (IF net[j].type = "DenseLayer"
                  THEN <<[node |-> owner, layer |-> j, name |-> "Weights"],
                         [node |-> owner, layer |-> j, name |-> "Biases"]>>
                  ELSE <<>>) \o From(j + 1)
    IN From(1)

(***************************************************************************)
(* Nodes live in a heap: heap[a] is the Node at address a, 0 is nil.       *)
(***************************************************************************)
Node(net, children) == [Network |-> net, Children |-> children]

Addrs(h) == 1..Len(h)

Roots(h) == {a \in Addrs(h) : \A b \in Addrs(h) : \A i \in 1..Len(h[b].Children) : h[b].Children[i] # a}

RECURSIVE Subtree(_, _)
Subtree(h, n) ==
    {n} \cup UNION {Subtree(h, h[n].Children[i]) : i \in 1..Len(h[n].Children)}

(***************************************************************************)
(* autofunc operations used by Apply.                                      *)
(***************************************************************************)
\* x + y on two log-domain values
AddLog(x, y) ==
    IF x.k = "nan" \/ y.k = "nan" THEN NaN
    ELSE IF x.k = "inf" \/ y.k = "inf"
         THEN (IF (x.k = "fin" /\ x.q = {}) \/ (y.k = "fin" /\ y.q = {}) THEN NaN ELSE PosInf)
    ELSE Fin(DMul(x.q, y.q))

\* autofunc.Pool hands the function a variable with the same output
Pool(r) == r

\* autofunc.Slice(w, start, end), indices from 0, end exclusive
Slice(w, start, end) == SubSeq(w, start + 1, end)

\* AddFirst with the weight forgotten
AddFirstNoWeight(r, weight) == r

\* autofunc.AddFirst adds the first entry of weight to every entry
AddFirst(r, weight) == [j \in 1..Len(r) |-> AddLog(r[j], weight[1])]

NilResult == [isNil |-> TRUE, v |-> <<>>]
Result(v) == [isNil |-> FALSE, v |-> v]

Visit(n, input) == [node |-> n, input |-> input]

Panicked(visits) == [panic |-> TRUE, out |-> <<>>, visits |-> visits]
Returned(out, visits) == [panic |-> FALSE, out |-> out, visits |-> visits]

RECURSIVE ApplyNode(_, _, _)
RECURSIVE ApplyLoop(_, _, _, _, _, _, _)

\* the loop of Apply at index i (from 0), with res the value accumulated so far
ApplyLoop(h, n, input, w, i, res, visits) ==
    IF ~(i < Len(w)) THEN Returned(res.v, visits)
    ELSE LET weight == Slice(w, i, i + 1)
             child == ApplyNode(h, h[n].Children[i + 1], input)
         IN IF child.panic THEN Panicked(visits \o child.visits)
            ELSE LET childOut == child.out
                     weighted == AddFirst(childOut, weight)
                 IN ApplyLoop(h, n, input, w, i + 1,
                              IF res.isNil THEN Result(weighted)
                              ELSE Result(logExpSum(res.v, weighted)),
                              visits \o child.visits)

\* Apply with the child-count check made before the leaf return
ApplyNodeCheckFirst(h, n, input) ==
    LET decisionWeights == NetApply(h[n].Network, input)
        visits == <<Visit(n, input)>>
    IN IF Len(decisionWeights) # Len(h[n].Children) THEN Panicked(visits)
       ELSE IF Len(h[n].Children) = 0 THEN Returned(decisionWeights, visits)
       ELSE ApplyLoop(h, n, input, Pool(decisionWeights), 0, NilResult, visits)

\* Apply that returns the scores instead of panicking on a mismatch
ApplyNodeNoPanic(h, n, input) ==
    LET decisionWeights == NetApply(h[n].Network, input)
        visits == <<Visit(n, input)>>
    IN IF Len(h[n].Children) = 0 THEN Returned(decisionWeights, visits)
       ELSE IF Len(decisionWeights) # Len(h[n].Children) THEN Returned(decisionWeights, visits)
       ELSE ApplyLoop(h, n, input, Pool(decisionWeights), 0, NilResult, visits)

\* Node.Apply
ApplyNode(h, n, input) ==
    LET decisionWeights == NetApply(h[n].Network, input)
        visits == <<Visit(n, input)>>
    IN IF Len(h[n].Children) = 0 THEN Returned(decisionWeights, visits)
       ELSE IF Len(decisionWeights) # Len(h[n].Children) THEN Panicked(visits)
       ELSE ApplyLoop(h, n, input, Pool(decisionWeights), 0, NilResult, visits)

RECURSIVE ApplyRNode(_, _, _)
RECURSIVE ApplyRLoop(_, _, _, _, _, _, _)

ApplyRLoop(h, n, input, w, i, res, visits) ==
    IF ~(i < Len(w)) THEN Returned(res.v, visits)
    ELSE LET weight == Slice(w, i, i + 1)
             child == ApplyRNode(h, h[n].Children[i + 1], input)
         IN IF child.panic THEN Panicked(visits \o child.visits)
            ELSE LET childOut == child.out
                     weighted == AddFirst(childOut, weight)
                 IN ApplyRLoop(h, n, input, w, i + 1,
                               IF res.isNil THEN Result(weighted)
                               ELSE Result(logExpSumR(res.v, weighted)),
                               visits \o child.visits)

\* Node.ApplyR: the Output() of the RResult (its ROutput(), the derivative
\* along rv, is not modelled)
ApplyRNode(h, n, input) ==
    LET decisionWeights == NetApplyR(h[n].Network, input)
        visits == <<Visit(n, input)>>
    IN IF Len(h[n].Children) = 0 THEN Returned(decisionWeights, visits)
       ELSE IF Len(decisionWeights) # Len(h[n].Children) THEN Panicked(visits)
       ELSE ApplyRLoop(h, n, input, Pool(decisionWeights), 0, NilResult, visits)

\* Node.Parameters
RECURSIVE Parameters(_, _)
RECURSIVE ParametersLoop(_, _, _, _)
RECURSIVE ParametersLoopChildFirst(_, _, _, _)

\* the loop of Parameters putting each child's parameters in front
ParametersLoopChildFirst(h, n, i, res) ==
    IF i > Len(h[n].Children) THEN res
    ELSE ParametersLoopChildFirst(h, n, i + 1, Parameters(h, h[n].Children[i]) \o res)

ParametersLoop(h, n, i, res) ==
    IF i > Len(h[n].Children) THEN res
    ELSE ParametersLoop(h, n, i + 1, res \o Parameters(h, h[n].Children[i]))

Parameters(h, n) ==
    ParametersLoop(h, n, 1, <<>> \o NetParameters(h[n].Network, n))

(***************************************************************************)
(* Serialization.  The bytes of a slice are modelled by what the           *)
(* serializer package can read back from them: valid or not, and when      *)
(* valid the sequence of typed blobs, each with its type name and its own  *)
(* payload.  Decoded objects are tagged with their dynamic type.           *)
(***************************************************************************)
NoNet == <<>>
Bytes(valid, elems) == [valid |-> valid, elems |-> elems]
EmptyBytes == Bytes(TRUE, <<>>)
CorruptBytes == Bytes(FALSE, <<>>)

NodeBlob(bytes) == [type |-> "Node", net |-> NoNet, bytes |-> bytes]
NetworkBlob(net) == [type |-> "Network", net |-> net, bytes |-> EmptyBytes]
BytesBlob == [type |-> "Bytes", net |-> NoNet, bytes |-> EmptyBytes]

NodeObj(a) == [kind |-> "Node", addr |-> a, net |-> NoNet]
NetworkObj(net) == [kind |-> "Network", addr |-> 0, net |-> net]
BytesObj == [kind |-> "Bytes", addr |-> 0, net |-> NoNet]

\* the list with the network put first
SerializeListNetworkFirst(h, n) ==
    LET len == Len(h[n].Children) + 1
    IN [i \in 1..len |-> IF i = 1 THEN NetworkObj(h[n].Network)
                         ELSE NodeObj(h[n].Children[i - 1])]

\* the list that Serialize fills: the children, then the network
SerializeList(h, n) ==
    LET len == Len(h[n].Children) + 1
    IN [i \in 1..len |-> IF i = len THEN NetworkObj(h[n].Network)
                         ELSE NodeObj(h[n].Children[i])]

RECURSIVE Serialize(_, _)

\* serializer.SerializeSlice: each element's type name and its own Serialize()
SerializeSlice(h, list) ==
    Bytes(TRUE, [i \in 1..Len(list) |->
                    IF list[i].kind = "Node" THEN NodeBlob(Serialize(h, list[i].addr))
                    ELSE IF list[i].kind = "Network" THEN NetworkBlob(list[i].net)
                    ELSE BytesBlob])

\* Node.Serialize
Serialize(h, n) == SerializeSlice(h, SerializeList(h, n))

NoError == "nil"
ErrInvalidNodeSlice == "invalid Node slice"
ErrDecode == "serializer: decode failed"

DecodeFailed(h, err) == [panic |-> FALSE, err |-> err, node |-> 0, list |-> <<>>, heap |-> h]
DecodePanic(h) == [panic |-> TRUE, err |-> NoError, node |-> 0, list |-> <<>>, heap |-> h]
Decoded(h, node, list) == [panic |-> FALSE, err |-> NoError, node |-> node, list |-> list, heap |-> h]

RECURSIVE DeserializeNode(_, _)
RECURSIVE DeserializeSliceFrom(_, _, _, _)

\* serializer.DeserializeSlice from element i on: every blob goes to the
\* deserializer registered for its type (init registers DeserializeNode)
DeserializeSliceFrom(h, d, i, list) ==
    IF i > Len(d.elems) THEN Decoded(h, 0, list)
    ELSE LET blob == d.elems[i]
         IN IF blob.type = "Node"
            THEN LET r == DeserializeNode(h, blob.bytes)
                 IN IF r.panic THEN DecodePanic(r.heap)
                    ELSE IF r.err # NoError THEN DecodeFailed(r.heap, r.err)
                    ELSE DeserializeSliceFrom(r.heap, d, i + 1, Append(list, NodeObj(r.node)))
            ELSE IF blob.type = "Network"
            THEN DeserializeSliceFrom(h, d, i + 1, Append(list, NetworkObj(blob.net)))
            ELSE DeserializeSliceFrom(h, d, i + 1, Append(list, BytesObj))

DeserializeSlice(h, d) ==
    IF ~d.valid THEN DecodeFailed(h, ErrDecode)
    ELSE DeserializeSliceFrom(h, d, 1, <<>>)

\* the loop of DeserializeNode over list[:len(list)-1], from index i (from 0).
\* res (allocated before the loop) enters the heap when it is returned: on the
\* error returns nothing refers to it.
RECURSIVE DeserializeChildren(_, _, _, _)
DeserializeChildren(h, list, i, children) ==
    IF ~(i < Len(list) - 1)
    THEN Decoded(Append(h, Node(list[Len(list)].net, children)), Len(h) + 1, list)
    ELSE LET child == list[i + 1]
             ok == child.kind = "Node"
         IN IF ~ok THEN DecodeFailed(h, ErrInvalidNodeSlice)
            ELSE DeserializeChildren(h, list, i + 1, Append(children, child.addr))

\* DeserializeNode.  ok is declared and read before anything assigns it: the
\* assertion of the last element to a Network is the one-value form, which
\* panics on another type and leaves ok alone.
DeserializeNode(h, d) ==
    LET r == DeserializeSlice(h, d)
    IN IF r.panic THEN DecodePanic(r.heap)
       ELSE IF r.err # NoError THEN DecodeFailed(r.heap, r.err)
       ELSE IF Len(r.list) = 0 THEN DecodeFailed(r.heap, ErrInvalidNodeSlice)
       ELSE LET list == r.list
                ok == FALSE
            IN IF list[Len(list)].kind # "Network" THEN DecodePanic(r.heap)
               ELSE IF ~ok THEN DecodeFailed(r.heap, ErrInvalidNodeSlice)
               ELSE DeserializeChildren(r.heap, list, 0, <<>>)

(***************************************************************************)
(* NewNodeBinTree.  rnd is the sequence of draws of Randomize, used in the *)
(* order of the calls; nodes are allocated when their literal is built,    *)
(* after the children's.                                                   *)
(***************************************************************************)
BinNetwork(inSize, hiddenSize, outSize, seed) ==
    << DenseLayer(inSize, hiddenSize, seed),
       HyperbolicTangent,
       DenseLayer(hiddenSize, outSize, seed),
       LogSoftmaxLayer >>

RECURSIVE BinTree(_, _, _, _, _, _)

\* NewNodeBinTree building one subtree and using it for both children
BinTreeShared(h, depth, inSize, hiddenSize, classCount, rnd) ==
    IF depth = 0
    THEN LET net == BinNetwork(inSize, hiddenSize, classCount, Head(rnd))
             h1 == Append(h, Node(net, <<>>))
         IN [heap |-> h1, node |-> Len(h1), rnd |-> Tail(rnd)]
    ELSE LET net == BinNetwork(inSize, hiddenSize, 2, Head(rnd))
             left == BinTree(h, depth - 1, inSize, hiddenSize, classCount, Tail(rnd))
             h1 == Append(left.heap, Node(net, <<left.node, left.node>>))
         IN [heap |-> h1, node |-> Len(h1), rnd |-> left.rnd]

BinTree(h, depth, inSize, hiddenSize, classCount, rnd) ==
    IF depth = 0
    THEN LET net == BinNetwork(inSize, hiddenSize, classCount, Head(rnd))
             h1 == Append(h, Node(net, <<>>))
         IN [heap |-> h1, node |-> Len(h1), rnd |-> Tail(rnd)]
    ELSE LET net == BinNetwork(inSize, hiddenSize, 2, Head(rnd))
             left == BinTree(h, depth - 1, inSize, hiddenSize, classCount, Tail(rnd))
             right == BinTree(left.heap, depth - 1, inSize, hiddenSize, classCount, left.rnd)
             h1 == Append(right.heap, Node(net, <<left.node, right.node>>))
         IN [heap |-> h1, node |-> Len(h1), rnd |-> right.rnd]

RECURSIVE Pow(_, _)
Pow(b, e) == IF e = 0 THEN 1 ELSE b * Pow(b, e - 1)

(***************************************************************************)
(* Operations.  ret is what the last call returned.                        *)
(***************************************************************************)
Init ==
    /\ heap = <<>>
    /\ ret = [op |-> "none"]

\* the networks a caller gives to a node it builds by hand
Widths == 1..(MaxNodes - 1)
LeafNets == {<<DenseLayer(1, ClassCount, s), LogSoftmaxLayer>> : s \in Seeds}
BranchNets == {<<DenseLayer(1, w, 1), LogSoftmaxLayer>> : w \in Widths}

\* the k most recently built trees, oldest first
RootSeq(h) ==
    LET RECURSIVE From(_)
        From(a) == IF a > Len(h) THEN <<>>
                   ELSE (IF a \in Roots(h) THEN <<a>> ELSE <<>>) \o From(a + 1)
    IN From(1)

LastRoots(h, k) == SubSeq(RootSeq(h), Len(RootSeq(h)) - k + 1, Len(RootSeq(h)))

\* &Node{Network: net, Children: kids}: the children are trees of their own.
\* Trees are built in post-order, a branch taking the trees built last as its
\* children: every ordered tree has exactly one such layout in the heap.
NewNode(net, kids) ==
    /\ Len(heap) < MaxNodes
    /\ heap' = Append(heap, Node(net, kids))
    /\ ret' = [op |-> "NewNode", node |-> Len(heap) + 1]

NewLeaf == \E net \in LeafNets : NewNode(net, <<>>)

NewBranch ==
    \E net \in BranchNets : \E k \in 1..Cardinality(Roots(heap)) :
        NewNode(net, LastRoots(heap, k))

\* one tree is built per behaviour, in an empty heap
NewNodeBinTree(depth, inSize, hiddenSize, classCount) ==
    /\ heap = <<>>
    /\ \E rnd \in [1..(Pow(2, depth + 1) - 1) -> Seeds] :
          LET t == BinTree(heap, depth, inSize, hiddenSize, classCount, rnd)
          IN /\ heap' = t.heap
             /\ ret' = [op |-> "NewNodeBinTree", depth |-> depth, inSize |-> inSize,
                        hiddenSize |-> hiddenSize, classCount |-> classCount,
                        node |-> t.node]

\* A caller looks at one result at a time: a call that leaves the heap alone
\* is made when the last thing returned was a newly built node (or nothing).
Ready == ret.op \in {"none", "NewNode", "NewNodeBinTree"}

Apply(n, input) ==
    /\ Ready
    /\ LET r == ApplyNode(heap, n, input)
       IN ret' = [op |-> "Apply", node |-> n, input |-> input, panic |-> r.panic,
                  out |-> r.out, visits |-> r.visits]
    /\ UNCHANGED heap

ApplyR(n, input) ==
    /\ Ready
    /\ LET r == ApplyRNode(heap, n, input)
       IN ret' = [op |-> "ApplyR", node |-> n, input |-> input, panic |-> r.panic,
                  out |-> r.out, visits |-> r.visits]
    /\ UNCHANGED heap

CallParameters(n) ==
    /\ Ready
    /\ ret' = [op |-> "Parameters", node |-> n, params |-> Parameters(heap, n)]
    /\ UNCHANGED heap

CallSerialize(n) ==
    /\ Ready
    /\ ret' = [op |-> "Serialize", node |-> n, list |-> SerializeList(heap, n),
               data |-> Serialize(heap, n), err |-> NoError]
    /\ UNCHANGED heap

\* encoded slices that no Serialize of a Node produced
ALeafNet == <<DenseLayer(1, ClassCount, 1), LogSoftmaxLayer>>
Malformed ==
    { CorruptBytes,
      EmptyBytes,
      Bytes(TRUE, <<BytesBlob>>),
      Bytes(TRUE, <<NetworkBlob(ALeafNet), NodeBlob(EmptyBytes)>>),
      Bytes(TRUE, <<NetworkBlob(ALeafNet), NetworkBlob(ALeafNet)>>),
      Bytes(TRUE, <<BytesBlob, NetworkBlob(ALeafNet)>>),
      Bytes(TRUE, <<NodeBlob(CorruptBytes), NetworkBlob(ALeafNet)>>) }

\* Nodes decoded for a call that fails or panics are unreachable afterwards.
CallDeserializeNode(d) ==
    /\ LET r == DeserializeNode(heap, d)
       IN /\ ret' = [op |-> "DeserializeNode", d |-> d, panic |-> r.panic,
                     err |-> r.err, node |-> r.node]
          /\ heap' = IF r.panic \/ r.err # NoError THEN heap ELSE r.heap

DeserializeSerialized ==
    /\ ret.op = "Serialize"
    /\ CallDeserializeNode(ret.data)

DeserializeMalformed == Ready /\ \E d \in Malformed : CallDeserializeNode(d)

Next ==
    \/ NewLeaf
    \/ NewBranch
    \/ \E n \in Roots(heap) : \E input \in Inputs : Apply(n, input)
    \/ \E n \in Roots(heap) : \E input \in Inputs : ApplyR(n, input)
    \/ \E n \in Roots(heap) : CallParameters(n)
    \/ \E n \in Roots(heap) : CallSerialize(n)
    \/ DeserializeSerialized
    \/ DeserializeMalformed

Spec == Init /\ [][Next]_vars

NextBin ==
    \E depth \in 0..MaxDepth : \E inSize \in {4} : \E hiddenSize \in {8} :
        \E classCount \in {2, 3} :
            NewNodeBinTree(depth, inSize, hiddenSize, classCount)

SpecBin == Init /\ [][NextBin]_vars

(***************************************************************************)
(* logExpSum as an operation on its own, on vectors of powers of two.      *)
(***************************************************************************)
LESExps == {-SatExp, -1, 0, SatExp}

LESVectors(n) == [1..n -> {Pow2(e) : e \in LESExps}]

InitLES ==
    /\ heap = <<>>
    /\ \E n \in 1..MaxLen : \E v1, v2 \in LESVectors(n) :
           ret = [op |-> "args", v1 |-> v1, v2 |-> v2]

CallLogExpSum ==
    /\ ret.op = "args"
    /\ ret' = [op |-> "logExpSum", v1 |-> ret.v1, v2 |-> ret.v2,
               out |-> logExpSum(ret.v1, ret.v2)]
    /\ UNCHANGED heap

CallLogExpSumR ==
    /\ ret.op = "args"
    /\ ret' = [op |-> "logExpSumR", v1 |-> ret.v1, v2 |-> ret.v2,
               out |-> logExpSumR(ret.v1, ret.v2)]
    /\ UNCHANGED heap

NextLES == CallLogExpSum \/ CallLogExpSumR

SpecLES == InitLES /\ [][NextLES]_vars

(***************************************************************************)
(* Claims.                                                                 *)
(***************************************************************************)
IsApply == ret.op \in {"Apply", "ApplyR"}

RetNode == heap[ret.node]

NetOut(op, net, input) == IF op = "Apply" THEN NetApply(net, input) ELSE NetApplyR(net, input)

\* what the call of the same kind returns on the node at address a
SubCall(op, a, input) ==
    IF op = "Apply" THEN ApplyNode(heap, a, input) ELSE ApplyRNode(heap, a, input)

Combine(op, v1, v2) == IF op = "Apply" THEN logExpSum(v1, v2) ELSE logExpSumR(v1, v2)

Occurrences(visits, a) == Cardinality({p \in 1..Len(visits) : visits[p].node = a})

\* C1: DeserializeNode on what Serialize produced for a tree returns a Node and
\* no error, and the returned tree has the same children counts, in the same
\* order, and the same Network at every node.
RECURSIVE TreeOf(_, _)
TreeOf(h, n) ==
    [Network |-> h[n].Network,
     Children |-> [i \in 1..Len(h[n].Children) |-> TreeOf(h, h[n].Children[i])]]

\* C1 as a property of the last call: a DeserializeNode of Serialize's output
\* for the tree at n succeeds and returns an equal tree.
C1_RoundTrip ==
    ret.op = "DeserializeNode" =>
        \A n \in Addrs(heap) :
            ret.d = Serialize(heap, n) =>
                /\ ~ret.panic
                /\ ret.err = NoError
                /\ ret.node # 0
                /\ TreeOf(heap, ret.node) = TreeOf(heap, n)

\* C2: DeserializeNode is total: on an empty list, a last element that is not a
\* Network, a non-last element that is not a *Node, or a failed slice decode, it
\* returns a nil Node and an error, and it never panics.
MalformedInput(d) ==
    \/ ~d.valid
    \/ Len(d.elems) = 0
    \/ d.elems[Len(d.elems)].type # "Network"
    \/ \E i \in 1..(Len(d.elems) - 1) : d.elems[i].type # "Node"

\* C2 as a property of the last call: never a panic, and on a malformed list a
\* nil Node with an error.
C2_DecodeTotal ==
    ret.op = "DeserializeNode" =>
        /\ ~ret.panic
        /\ MalformedInput(ret.d) => (ret.node = 0 /\ ret.err # NoError)

\* C3: on a branch node with k >= 1 children whose network outputs k scores, a
\* returning Apply equals the left-to-right fold acc_0 = weighted_0,
\* acc_i = logExpSum(acc_(i-1), weighted_i), weighted_i being child i's Apply on
\* the same input plus scores[i]; each child is evaluated exactly once, on the
\* input the parent received.
Weighted(op, node, input, i) ==
    LET scores == NetOut(op, node.Network, input)
        childOut == SubCall(op, node.Children[i], input).out
    IN [j \in 1..Len(childOut) |-> AddLog(childOut[j], scores[i])]

RECURSIVE FoldTo(_, _, _, _)
FoldTo(op, node, input, i) ==
    IF i = 1 THEN Weighted(op, node, input, 1)
    ELSE Combine(op, FoldTo(op, node, input, i - 1), Weighted(op, node, input, i))

C3_Precondition ==
    /\ IsApply
    /\ Len(RetNode.Children) >= 1
    /\ Len(NetOut(ret.op, RetNode.Network, ret.input)) = Len(RetNode.Children)
    /\ ~ret.panic

\* C3 as a property of the last call: the output is the fold, and each child
\* was evaluated once, on the same input.
C3_ApplyIsFold ==
    C3_Precondition =>
        LET k == Len(RetNode.Children)
        IN /\ ret.out = FoldTo(ret.op, RetNode, ret.input, k)
           /\ \A i \in 1..k : Occurrences(ret.visits, RetNode.Children[i]) = 1
           /\ \A p \in 1..Len(ret.visits) : ret.visits[p].input = ret.input

C3_Witness ==
    /\ C3_Precondition
    /\ Len(RetNode.Children) = 3
    /\ \A j \in 1..Len(ret.out) : ret.out[j].k = "fin" /\ ret.out[j].q # {}
    /\ ret.out[1] # ret.out[2]

\* C5: on a node with no children Apply and ApplyR return the output of the
\* node's own network on that input, unmodified, and the child-count check is
\* not reached.
C5_LeafPassthrough ==
    (IsApply /\ Len(RetNode.Children) = 0) =>
        /\ ~ret.panic
        /\ ret.out = NetOut(ret.op, RetNode.Network, ret.input)
        /\ ret.visits = <<Visit(ret.node, ret.input)>>

C5_Witness ==
    /\ ret.op = "ApplyR"
    /\ Len(RetNode.Children) = 0
    /\ Len(ret.out) # Len(RetNode.Children)
    /\ ~ret.panic

\* C6: Apply panics if and only if some node of the tree with at least one child
\* has a network output length different from its number of children; a panic
\* returns no output vector, and without one Apply visits every node of the
\* tree and returns a full output vector.
Mismatched(a, input) ==
    /\ Len(heap[a].Children) >= 1
    /\ Len(NetOut(ret.op, heap[a].Network, input)) # Len(heap[a].Children)

\* C6 as a property of the last call: panic exactly on a mismatched branch
\* node in the subtree; no output on a panic, a full traversal without one.
C6_PanicIffMismatch ==
    IsApply =>
        /\ ret.panic <=> \E a \in Subtree(heap, ret.node) : Mismatched(a, ret.input)
        /\ ret.panic => ret.out = <<>>
        /\ ~ret.panic =>
              /\ {ret.visits[p].node : p \in 1..Len(ret.visits)} = Subtree(heap, ret.node)
              /\ Len(ret.out) = ClassCount

C6_Witness ==
    /\ IsApply
    /\ ret.panic
    /\ ~Mismatched(ret.node, ret.input)

\* C4: on a valid tree (every branch network a log-probability distribution over
\* its children, every leaf network one over the classes) the vector Apply
\* returns has the length of the class count and its exponentials sum to 1: it
\* is the mixture sum_i P(child=i) * P(class | child=i).
TolBits == 20

Tolerance == {-TolBits}

Close(a, b) == DLeq(a, DAdd(b, Tolerance)) /\ DLeq(b, DAdd(a, Tolerance))

RECURSIVE DSum(_)
DSum(v) == IF Len(v) = 0 THEN {} ELSE DAdd(Head(v), DSum(Tail(v)))

SumsToOne(v) ==
    /\ \A j \in 1..Len(v) : v[j].k = "fin" /\ v[j].d = "log"
    /\ Close(DSum([j \in 1..Len(v) |-> v[j].q]), DOne)

ValidTree(a, input) ==
    \A b \in Subtree(heap, a) :
        LET scores == NetOut(ret.op, heap[b].Network, input)
        IN /\ SumsToOne(scores)
           /\ Len(scores) = (IF Len(heap[b].Children) = 0 THEN ClassCount
                             ELSE Len(heap[b].Children))

\* the exact mixture at the node at address a, in the linear domain
RECURSIVE Mixture(_, _)
RECURSIVE MixtureFrom(_, _, _)
MixtureFrom(a, input, i) ==
    LET p == NetOut(ret.op, heap[a].Network, input)
        m == Mixture(heap[a].Children[i], input)
        term == [c \in 1..Len(m) |-> DMul(p[i].q, m[c])]
    IN IF i = Len(heap[a].Children) THEN term
       ELSE LET rest == MixtureFrom(a, input, i + 1)
            IN [c \in 1..Len(term) |-> DAdd(term[c], rest[c])]

Mixture(a, input) ==
    IF Len(heap[a].Children) = 0
    THEN LET p == NetOut(ret.op, heap[a].Network, input) IN [c \in 1..Len(p) |-> p[c].q]
    ELSE MixtureFrom(a, input, 1)

\* C4 as a property of the last call: on a valid tree the output has ClassCount
\* entries whose exponentials sum to 1 (within 2^-TolBits) and is the mixture.
C4_OutputIsDistribution ==
    (IsApply /\ ValidTree(ret.node, ret.input)) =>
        /\ ~ret.panic
        /\ Len(ret.out) = ClassCount
        /\ SumsToOne(ret.out)
        /\ \A c \in 1..ClassCount : Close(ret.out[c].q, Mixture(ret.node, ret.input)[c])

\* C7: logExpSum(v1, v2), with the shared shift m = max(MaxAbs(v1), MaxAbs(v2))
\* subtracted, has no exponent argument that overflows exp and no position where
\* both exponent arguments underflow, so that the log never sees 0 and the
\* output holds no Inf or NaN.
C7_LogExpSumStable ==
    ret.op \in {"logExpSum", "logExpSumR"} =>
        LET maxVal == MathMax(MaxAbs(ret.v1), MaxAbs(ret.v2))
            arg1 == AddScaler(ret.v1, maxVal)
            arg2 == AddScaler(ret.v2, maxVal)
        IN \A i \in 1..Len(ret.v1) :
              /\ ~ExpOverflows(arg1[i]) /\ ~ExpOverflows(arg2[i])
              /\ ~(ExpUnderflows(arg1[i]) /\ ExpUnderflows(arg2[i]))
              /\ ret.out[i].k = "fin" /\ ret.out[i].q # {}

\* C8: NewNodeBinTree(d, ...) with d >= 0 returns a balanced binary tree: it has
\* 2^(d+1) - 1 nodes, every node above level d has 2 children and a network of
\* output width 2, every node at level d has no children and a network of
\* output width classCount, and no node has two parents.
ChildSet(h, S) == UNION {{h[a].Children[i] : i \in 1..Len(h[a].Children)} : a \in S}

RECURSIVE Level(_, _, _)
Level(h, root, l) == IF l = 0 THEN {root} ELSE ChildSet(h, Level(h, root, l - 1))

ParentLinks(h, a) ==
    UNION {{<<b, i>> : i \in {j \in 1..Len(h[b].Children) : h[b].Children[j] = a}} : b \in Addrs(h)}

\* C8 as a property of the tree NewNodeBinTree returned: node count, levels,
\* widths and single parents.
C8_BalancedBinaryTree ==
    ret.op = "NewNodeBinTree" =>
        LET d == ret.depth
            tree == Subtree(heap, ret.node)
        IN /\ Cardinality(tree) = Pow(2, d + 1) - 1
           /\ tree = UNION {Level(heap, ret.node, l) : l \in 0..d}
           /\ \A l \in 0..d : Cardinality(Level(heap, ret.node, l)) = Pow(2, l)
           /\ \A l \in 0..(d - 1) : \A a \in Level(heap, ret.node, l) :
                 Len(heap[a].Children) = 2 /\ OutputWidth(heap[a].Network) = 2
           /\ \A a \in Level(heap, ret.node, d) :
                 Len(heap[a].Children) = 0 /\ OutputWidth(heap[a].Network) = ret.classCount
           /\ ParentLinks(heap, ret.node) = {}
           /\ \A a \in tree \ {ret.node} : Cardinality(ParentLinks(heap, a)) = 1
           /\ d = 0 => (tree = {ret.node} /\ Len(heap[ret.node].Children) = 0)

C8_Witness ==
    /\ ret.op = "NewNodeBinTree"
    /\ ret.depth = MaxDepth
    /\ ret.classCount # 2
    /\ Cardinality(Subtree(heap, ret.node)) = Pow(2, MaxDepth + 1) - 1

\* C9: Parameters() at a node is the pre-order concatenation of the parameter
\* lists: the node's own network parameters, then each child's in child index
\* order; its length is the sum of the own-parameter counts of the subtree and
\* no parameter appears twice.
RECURSIVE PreOrder(_, _)
RECURSIVE PreOrderKids(_, _, _)
PreOrderKids(h, n, i) ==
    IF i > Len(h[n].Children) THEN <<>>
    ELSE PreOrder(h, h[n].Children[i]) \o PreOrderKids(h, n, i + 1)
PreOrder(h, n) == <<n>> \o PreOrderKids(h, n, 1)

RECURSIVE ConcatOwn(_, _)
ConcatOwn(h, nodes) ==
    IF Len(nodes) = 0 THEN <<>>
    ELSE NetParameters(h[Head(nodes)].Network, Head(nodes)) \o ConcatOwn(h, Tail(nodes))

RECURSIVE SumOver(_, _)
SumOver(h, S) ==
    IF S = {} THEN 0
    ELSE LET a == CHOOSE x \in S : TRUE
         IN Len(NetParameters(h[a].Network, a)) + SumOver(h, S \ {a})

\* C9 as a property of the last call: the pre-order concatenation, its length,
\* no repetition.
C9_ParametersPreOrder ==
    ret.op = "Parameters" =>
        /\ ret.params = ConcatOwn(heap, PreOrder(heap, ret.node))
        /\ Len(ret.params) = SumOver(heap, Subtree(heap, ret.node))
        /\ \A i, j \in 1..Len(ret.params) : ret.params[i] = ret.params[j] => i = j

C9_Witness ==
    /\ ret.op = "Parameters"
    /\ Len(RetNode.Children) >= 2
    /\ \E i \in 1..Len(RetNode.Children) : Len(heap[RetNode.Children[i]].Children) >= 1

\* C10: the element list Serialize hands to the encoder has len(Children) + 1
\* elements: the children in child index order, then the node's own Network;
\* Serialize leaves the node's Children and Network unchanged.
C10_SerializeList ==
    [][(ret'.op = "Serialize" /\ ret' # ret) =>
          LET node == heap[ret'.node]
              list == ret'.list
          IN /\ Len(list) = Len(node.Children) + 1
             /\ Len(list) >= 1
             /\ \A i \in 1..Len(node.Children) : list[i] = NodeObj(node.Children[i])
             /\ list[Len(list)] = NetworkObj(node.Network)
             /\ heap' = heap]_vars

C10_Witness ==
    /\ ret.op = "Serialize"
    /\ Len(RetNode.Children) >= 2
    /\ Len(ret.list) = Len(RetNode.Children) + 1

====
